---- MODULE Spec2Model ----
(***************************************************************************)
(* Wix order webhook: OrderProcessor.extract_order_data,                   *)
(* OrderProcessor.create_delhivery_manifest and process_order_webhook of   *)
(* src/main.py, with the Supabase tables "orders" and "delhivery_manifest" *)
(* as the store.                                                           *)
(*                                                                         *)
(* Money is modelled in whole currency units (the code's floats carry the  *)
(* same subtraction, comparison and addition).  Row and manifest fields    *)
(* that are plain copies or literals and that no property reads (contact   *)
(* and address fields, package dimensions, ...) are left out.              *)
(***************************************************************************)
EXTENDS Integers, Sequences, FiniteSets, TLC

VARIABLES
  pc,            \* position of the current call / request
  payload,       \* the payload's "data" mapping being processed
  clock,         \* day of the week (1 = Monday) the wall clock shows
  rollAt,        \* line item at which midnight passes during extraction (0: never)
  order_rows,    \* what extract_order_data returned
  derived,       \* create_delhivery_manifest applied to each returned row
  i,             \* position of the webhook's "for order_row in order_rows"
  orders,        \* table "orders", unique on order_id
  delhivery_manifest, \* table "delhivery_manifest", unique on sale_order_number
  attempts,      \* the current request's Store calls and manifest derivations, in order
  response,      \* the body the webhook returned for the current request
  last,          \* history: the previous completed request and the tables after it
  issued,        \* history: (order_id, original_order_id, item_index) of every row a call returned
  calls          \* number of calls / requests made so far

vars == <<pc, payload, clock, rollAt, order_rows, derived, i, orders,
          delhivery_manifest, attempts, response, last, issued, calls>>

(***************************************************************************)
(* Bounds of the model.                                                    *)
(***************************************************************************)
MaxItems == 2
MaxDescLines == 3
MaxCalls == 2

(***************************************************************************)
(* JSON values as the payload carries them.  Absent is a key that is not   *)
(* in its mapping; None is an explicit null.                               *)
(***************************************************************************)
Absent == [t |-> "absent"]
None == [t |-> "null"]
Str(s) == [t |-> "str", s |-> s]
Num(n) == [t |-> "num", n |-> n]

\* dict.get(key, default): the default only when the key is absent.
Get(v, default) == IF v = Absent THEN default ELSE v

\* Strings of decimal digits the model uses, with the number int()/float() reads.
DecimalText == ("10001" :> 10001) @@ ("1999" :> 1999)

\* int(x) / float(x) raise on null and on a string that is not a number.
ConversionRaises(v) ==
  ~(v.t = "num" \/ (v.t = "str" /\ v.s \in DOMAIN DecimalText))

ToNumber(v) == IF v.t = "num" THEN v.n ELSE DecimalText[v.s]

\* str.upper() on the strings of the model.
UpperTable == ("paid" :> "PAID") @@ ("not_paid" :> "NOT_PAID") @@ ("s" :> "S") @@ ("xl" :> "XL")

Upper(s) == IF s \in DOMAIN UpperTable THEN UpperTable[s] ELSE s

\* Creation timestamps datetime.fromisoformat accepts once "Z" is replaced,
\* with the replaced text.
IsoTimestamps == ("2024-05-01T10:00:00Z" :> "2024-05-01T10:00:00+00:00")

\* An f-string's rendering of a value.
FormatValue(v) ==
  CASE v.t = "str" -> v.s
    [] v.t = "num" -> ToString(v.n)
    [] OTHER -> "None"

TEST_ORDER_IDS == {10001, 10002, 10003, 10004, 10049, 10061, 10114, 10115, 10450, 10451, 10452}

\* strftime("%a").upper() of day d of the week.
Weekdays == <<"MON", "TUE", "WED", "THU", "FRI", "SAT", "SUN">>

NextDay(d) == (d % 7) + 1

\* The day datetime.today() shows while line item idx is processed: the call
\* starts on day c and midnight passes before line item r (r = 0: it does not).
ReadDay(c, r, idx) == IF r # 0 /\ idx >= r THEN NextDay(c) ELSE c

(***************************************************************************)
(* OrderProcessor.extract_order_data                                       *)
(***************************************************************************)
IsTestOrderNever(order_number) == FALSE

IsTestOrder(order_number) == order_number \in TEST_ORDER_IDS

\* The except branch: whatever was accumulated is dropped.
ExceptReturnPartial(expanded_rows) == expanded_rows

ExceptReturn(expanded_rows) == <<>>

\* createdDate: falsy values give order_date None, anything else is parsed.
CreatedDateRaises(created_date) ==
  /\ created_date # None
  /\ created_date # Str("")
  /\ ~(created_date.t = "str" /\ created_date.s \in DOMAIN IsoTimestamps)

OrderDate(created_date) ==
  IF created_date = None \/ created_date = Str("") THEN None
  ELSE Str(IsoTimestamps[created_date.s])

\* Lines 53-96: the values read before the line items that can raise.
HeaderRaises(order_data) ==
  \/ CreatedDateRaises(Get(order_data.createdDate, Str("")))
  \/ Get(order_data.paymentStatus, Str("NOT_PAID")).t # "str"
  \/ ConversionRaises(Get(order_data.discount, Num(0)))

SharedInfo(order_number, order_data) ==
  [ original_order_id |-> order_number,
    order_date |-> OrderDate(Get(order_data.createdDate, Str(""))),
    payment_status |-> Upper(Get(order_data.paymentStatus, Str("NOT_PAID")).s),
    discount |-> ToNumber(Get(order_data.discount, Num(0))) ]

RECURSIVE ScanFirstMatch(_, _, _)
ScanFirstMatch(description_lines, size, color) ==
  IF description_lines = <<>> THEN [size |-> size, color |-> color]
  ELSE LET desc_line == Head(description_lines)
           rest == Tail(description_lines)
       IN IF desc_line.name = Str("Sizes")
          THEN ScanFirstMatch(rest,
                 IF size = Str("") THEN Get(desc_line.description, Str("")) ELSE size, color)
          ELSE IF desc_line.name = Str("Colour")
          THEN ScanFirstMatch(rest, size,
                 IF color = Str("") THEN Get(desc_line.description, Str("")) ELSE color)
          ELSE ScanFirstMatch(rest, size, color)

\* Lines 106-110: every description line named "Sizes" / "Colour" assigns.
RECURSIVE ScanDescriptionLines(_, _, _)
ScanDescriptionLines(description_lines, size, color) ==
  IF description_lines = <<>> THEN [size |-> size, color |-> color]
  ELSE LET desc_line == Head(description_lines)
           rest == Tail(description_lines)
       IN IF desc_line.name = Str("Sizes")
          THEN ScanDescriptionLines(rest, Get(desc_line.description, Str("")), color)
          ELSE IF desc_line.name = Str("Colour")
          THEN ScanDescriptionLines(rest, size, Get(desc_line.description, Str("")))
          ELSE ScanDescriptionLines(rest, size, color)

UniqueOrderIdNoIndex(order_number, idx, weekday_str) ==
  ToString(order_number) \o "Q" \o weekday_str

\* An id that also carries the number of the call that made it.
UniqueOrderIdPerCall(order_number, idx, weekday_str) ==
  ToString(order_number) \o "Q" \o ToString(idx) \o weekday_str \o ToString(calls)

\* Lines 113-115: f"{order_number}Q{idx}{weekday_str}".
UniqueOrderId(order_number, idx, weekday_str) ==
  ToString(order_number) \o "Q" \o ToString(idx) \o weekday_str

\* A null line item has no .get; float() of the price can raise.
ItemRaises(item) ==
  \/ item = None
  \/ ConversionRaises(Get(item.totalPrice, Num(0)))

ItemRow(order_number, idx, item, weekday_str) ==
  LET options == ScanDescriptionLines(item.descriptionLines, Str(""), Str(""))
  IN [ order_id |-> UniqueOrderId(order_number, idx, weekday_str),
       item_index |-> idx,
       translated_name |-> Get(item.itemName, Str("")),
       sku |-> Get(item.sku, Str("")),
       quantity |-> Get(item.quantity, Num(1)),
       total_price |-> ToNumber(Get(item.totalPrice, Num(0))),
       size |-> options.size,
       color |-> options.color ]

\* {**shared_info, **item_row}: one flat row; the two key sets are disjoint.
MergeRow(shared_info, item_row) ==
  [ original_order_id |-> shared_info.original_order_id,
    order_date |-> shared_info.order_date,
    payment_status |-> shared_info.payment_status,
    discount |-> shared_info.discount,
    order_id |-> item_row.order_id,
    item_index |-> item_row.item_index,
    translated_name |-> item_row.translated_name,
    sku |-> item_row.sku,
    quantity |-> item_row.quantity,
    total_price |-> item_row.total_price,
    size |-> item_row.size,
    color |-> item_row.color ]

AppendRowInFront(expanded_rows, row) == <<row>> \o expanded_rows

AppendRow(expanded_rows, row) == Append(expanded_rows, row)

\* Lines 100-129: the loop, up to the line item that raises, if one does.
RECURSIVE ProcessLineItems(_, _, _, _, _, _)
ProcessLineItems(shared_info, line_items, idx, c, r, expanded_rows) ==
  IF idx > Len(line_items)
  THEN [raised |-> FALSE, expanded_rows |-> expanded_rows]
  ELSE IF ItemRaises(line_items[idx])
  THEN [raised |-> TRUE, expanded_rows |-> expanded_rows]
  ELSE ProcessLineItems(shared_info, line_items, idx + 1, c, r,
         AppendRow(expanded_rows,
           MergeRow(shared_info,
                    ItemRow(shared_info.original_order_id, idx,
                            line_items[idx], Weekdays[ReadDay(c, r, idx)]))))

ExtractOrderData(order_data, c, r) ==
  IF ConversionRaises(Get(order_data.orderNumber, Num(0)))
  THEN ExceptReturn(<<>>)
  ELSE LET order_number == ToNumber(Get(order_data.orderNumber, Num(0)))
       IN IF IsTestOrder(order_number) THEN <<>>
          ELSE IF HeaderRaises(order_data) THEN ExceptReturn(<<>>)
          ELSE LET loop == ProcessLineItems(SharedInfo(order_number, order_data),
                                            order_data.lineItems, 1, c, r, <<>>)
               IN IF loop.raised THEN ExceptReturn(loop.expanded_rows)
                  ELSE loop.expanded_rows

(***************************************************************************)
(* OrderProcessor.create_delhivery_manifest                                *)
(***************************************************************************)
CodThreshold == 2000
CodCharge == 80

CodSurchargeInclusive(payment_status, base_price) ==
  IF payment_status # "PAID" /\ base_price <= CodThreshold THEN CodCharge ELSE 0

CodSurcharge(payment_status, base_price) ==
  IF payment_status # "PAID" /\ base_price < CodThreshold THEN CodCharge ELSE 0

\* order_row['size'].upper() exists on strings only.
ManifestRaises(order_row) == order_row.size.t # "str"

CreateDelhiveryManifest(order_row) ==
  LET base_price == order_row.total_price - order_row.discount
      shipping == CodSurcharge(order_row.payment_status, base_price)
  IN [ sale_order_number |-> "PZ" \o order_row.order_id,
       order_id |-> order_row.order_id,
       payment_mode |-> IF order_row.payment_status = "PAID" THEN "Prepaid" ELSE "COD",
       item_sku_code |-> order_row.sku,
       item_sku_name |-> FormatValue(order_row.translated_name) \o " - Size: "
                           \o Upper(order_row.size.s) \o " - Colour: "
                           \o FormatValue(order_row.color),
       quantity_ordered |-> order_row.quantity,
       unit_item_price |-> base_price + shipping ]

\* The call's outcome: the record returned, or the exception.
ManifestCallResult(order_row) ==
  IF ManifestRaises(order_row) THEN [raised |-> TRUE]
  ELSE [raised |-> FALSE, manifest |-> CreateDelhiveryManifest(order_row)]

(***************************************************************************)
(* Payloads the model delivers.                                            *)
(***************************************************************************)
DescLine(name, description) == [name |-> name, description |-> description]

Item(itemName, sku, quantity, totalPrice, descriptionLines) ==
  [ itemName |-> itemName, sku |-> sku, quantity |-> quantity,
    totalPrice |-> totalPrice, descriptionLines |-> descriptionLines ]

OrderData(orderNumber, createdDate, paymentStatus, discount, lineItems) ==
  [ orderNumber |-> orderNumber, createdDate |-> createdDate,
    paymentStatus |-> paymentStatus, discount |-> discount, lineItems |-> lineItems ]

SeqsUpTo(S, n) == UNION {[1..k -> S] : k \in 0..n}

Tee(totalPrice) ==
  Item(Str("Tee"), Str("T1"), Num(2), totalPrice,
       <<DescLine(Str("Sizes"), Str("xl")), DescLine(Str("Colour"), Str("Red"))>>)

\* A line item whose size option is an explicit null.
Cap(totalPrice) ==
  Item(Str("Cap"), Str("C1"), Absent, totalPrice, <<DescLine(Str("Sizes"), None)>>)

Prices == {Num(1999), Num(2000), Num(2100), Str("abc")}

Items == {Tee(p) : p \in Prices} \cup {Cap(Num(1500)), None}

OrderNumbers == {Num(7), Num(10001), Str("10001"), Str("abc")}

CreatedDates == {Absent, Str("2024-05-01T10:00:00Z"), Str("yesterday")}

PaymentStatuses == {Absent, Str("PAID"), Str("paid")}

Discounts == {Absent, Num(100)}

Payloads ==
  { OrderData(n, d, p, x, l) :
      n \in OrderNumbers, d \in CreatedDates, p \in PaymentStatuses,
      x \in Discounts, l \in SeqsUpTo(Items, MaxItems) }

\* Description lines of one line item.
DescLines ==
  { DescLine(Str("Sizes"), Str("s")), DescLine(Str("Sizes"), Str("xl")),
    DescLine(Str("Sizes"), None), DescLine(Str("Sizes"), Absent),
    DescLine(Str("Colour"), Str("Red")), DescLine(Str("Colour"), Str("Blue")),
    DescLine(Str("Fabric"), Str("Cotton")) }

\* Single-item orders over every description-line list.
ItemPayloads ==
  { OrderData(Num(7), Absent, Absent, Absent,
              <<Item(Str("Cap"), Str("C1"), Num(1), Num(1500), d)>>) :
      d \in SeqsUpTo(DescLines, MaxDescLines) }

\* Days of the week on which the model's requests arrive.
ProcessingDays == {1, 2}

NoRequest == [none |-> TRUE]
NoResponse == [status |-> "pending"]

InitRest ==
  /\ order_rows = <<>>
  /\ derived = <<>>
  /\ i = 0
  /\ orders = {}
  /\ delhivery_manifest = {}
  /\ attempts = <<>>
  /\ response = NoResponse
  /\ last = NoRequest
  /\ issued = {}
  /\ calls = 0

(***************************************************************************)
(* The two functions on their own: one call of extract_order_data, then    *)
(* create_delhivery_manifest on every row it returned.                     *)
(***************************************************************************)
InitExtract ==
  /\ pc = "input"
  /\ payload \in Payloads
  /\ clock \in ProcessingDays
  /\ rollAt \in 0..Len(payload.lineItems)
  /\ InitRest

InitItem ==
  /\ pc = "input"
  /\ payload \in ItemPayloads
  /\ clock \in ProcessingDays
  /\ rollAt = 0
  /\ InitRest

IssuedBy(rows) ==
  { [ order_id |-> rows[k].order_id,
      original_order_id |-> rows[k].original_order_id,
      item_index |-> rows[k].item_index ] : k \in 1..Len(rows) }

ExtractCall ==
  /\ pc = "input"
  /\ order_rows' = ExtractOrderData(payload, clock, rollAt)
  /\ issued' = issued \cup IssuedBy(order_rows')
  /\ calls' = calls + 1
  /\ pc' = "extracted"
  /\ UNCHANGED <<payload, clock, rollAt, derived, i, orders, delhivery_manifest,
                 attempts, response, last>>

ManifestCall ==
  /\ pc = "extracted"
  /\ derived' = [k \in 1..Len(order_rows) |-> ManifestCallResult(order_rows[k])]
  /\ pc' = "derived"
  /\ UNCHANGED <<payload, clock, rollAt, order_rows, i, orders, delhivery_manifest,
                 attempts, response, last, issued, calls>>

NextExtract == ExtractCall \/ ManifestCall

SpecExtract == InitExtract /\ [][NextExtract]_vars

SpecItem == InitItem /\ [][NextExtract]_vars

(***************************************************************************)
(* Successive calls of extract_order_data, on any days.                    *)
(***************************************************************************)
ItemLists ==
  { <<Tee(Num(1999))>>, <<Tee(Num(1999)), Cap(Num(1500))>>, <<Tee(Num(1999)), None>> }

CallPayloads ==
  { OrderData(n, Absent, Absent, Absent, l) :
      n \in {Num(7), Num(8), Num(10001)}, l \in ItemLists }

InitCalls ==
  /\ pc = "input"
  /\ payload \in CallPayloads
  /\ clock \in ProcessingDays
  /\ rollAt \in 0..Len(payload.lineItems)
  /\ InitRest

NextCall ==
  /\ pc = "extracted"
  /\ calls < MaxCalls
  /\ payload' \in CallPayloads
  /\ clock' \in ProcessingDays
  /\ rollAt' \in 0..Len(payload'.lineItems)
  /\ pc' = "input"
  /\ UNCHANGED <<order_rows, derived, i, orders, delhivery_manifest, attempts,
                 response, last, issued, calls>>

NextCalls == ExtractCall \/ NextCall

SpecCalls == InitCalls /\ [][NextCalls]_vars

(***************************************************************************)
(* process_order_webhook.  The handler awaits nothing after it has read    *)
(* the body, so requests are handled one after the other; each Store call  *)
(* succeeds or raises.                                                     *)
(***************************************************************************)
WebhookPayloads ==
  { OrderData(n, Absent, p, Absent, l) :
      n \in {Num(7), Num(10001)}, p \in {Absent, Str("PAID")}, l \in ItemLists }

\* supabase.table(t).upsert(record, on_conflict=key).execute() when it succeeds.
Upsert(table, record, on_conflict) ==
  {r \in table : r[on_conflict] # record[on_conflict]} \cup {record}

BreakLoop(idx, n) == n + 1

\* except ...: continue
ContinueLoop(idx, n) == idx + 1

OnOrdersFailureGoOn == "manifest"

\* The orders upsert and the manifest steps share one try block: when the
\* first raises, control is in the except branch.
OnOrdersFailure == "continue"

Event(step, order_row, ok) == [step |-> step, order_id |-> order_row.order_id, ok |-> ok]

Init ==
  /\ pc = "idle"
  /\ payload = None
  /\ clock \in ProcessingDays
  /\ rollAt = 0
  /\ InitRest

\* Lines 176-189: the body is read, rows are extracted, no rows: "skipped".
Receive ==
  /\ pc = "idle"
  /\ calls < MaxCalls
  /\ \E p \in WebhookPayloads, r \in 0..MaxItems :
       /\ r <= Len(p.lineItems)
       /\ payload' = p
       /\ rollAt' = r
       /\ order_rows' = ExtractOrderData(p, clock, r)
  /\ calls' = calls + 1
  /\ attempts' = <<>>
  /\ response' = NoResponse
  /\ IF order_rows' = <<>> THEN pc' = "respond" /\ i' = 0
                           ELSE pc' = "orders" /\ i' = 1
  /\ UNCHANGED <<clock, derived, orders, delhivery_manifest, last, issued>>

AfterRow(next) ==
  /\ i' = next
  /\ pc' = IF next > Len(order_rows) THEN "respond" ELSE "orders"

UpsertOrdersOk ==
  /\ pc = "orders"
  /\ orders' = Upsert(orders, order_rows[i], "order_id")
  /\ attempts' = Append(attempts, Event("orders", order_rows[i], TRUE))
  /\ pc' = "manifest"
  /\ UNCHANGED <<payload, clock, rollAt, order_rows, derived, i, delhivery_manifest,
                 response, last, issued, calls>>

UpsertOrdersFail ==
  /\ pc = "orders"
  /\ attempts' = Append(attempts, Event("orders", order_rows[i], FALSE))
  /\ IF OnOrdersFailure = "continue"
     THEN AfterRow(ContinueLoop(i, Len(order_rows)))
     ELSE pc' = "manifest" /\ i' = i
  /\ UNCHANGED <<payload, clock, rollAt, order_rows, derived, orders,
                 delhivery_manifest, response, last, issued, calls>>

CreateManifestRaises ==
  /\ pc = "manifest"
  /\ ManifestRaises(order_rows[i])
  /\ attempts' = Append(attempts, Event("derive", order_rows[i], FALSE))
  /\ AfterRow(ContinueLoop(i, Len(order_rows)))
  /\ UNCHANGED <<payload, clock, rollAt, order_rows, derived, orders,
                 delhivery_manifest, response, last, issued, calls>>

UpsertManifestOk ==
  /\ pc = "manifest"
  /\ ~ManifestRaises(order_rows[i])
  /\ delhivery_manifest' =
       Upsert(delhivery_manifest, CreateDelhiveryManifest(order_rows[i]), "sale_order_number")
  /\ attempts' = attempts \o << Event("derive", order_rows[i], TRUE),
                                Event("manifest", order_rows[i], TRUE) >>
  /\ AfterRow(i + 1)
  /\ UNCHANGED <<payload, clock, rollAt, order_rows, derived, orders, response,
                 last, issued, calls>>

UpsertManifestFail ==
  /\ pc = "manifest"
  /\ ~ManifestRaises(order_rows[i])
  /\ attempts' = attempts \o << Event("derive", order_rows[i], TRUE),
                                Event("manifest", order_rows[i], FALSE) >>
  /\ AfterRow(ContinueLoop(i, Len(order_rows)))
  /\ UNCHANGED <<payload, clock, rollAt, order_rows, derived, orders,
                 delhivery_manifest, response, last, issued, calls>>

\* Every Store call of the request succeeded.
Clean(log) == \A k \in DOMAIN log : log[k].step \in {"orders", "manifest"} => log[k].ok

Respond ==
  /\ pc = "respond"
  /\ response' =
       IF order_rows = <<>> THEN [status |-> "skipped"]
       ELSE [ status |-> "success",
              order_ids |-> [k \in 1..Len(order_rows) |-> order_rows[k].order_id] ]
  /\ last' = [ payload |-> payload, clock |-> clock, rollAt |-> rollAt,
               clean |-> Clean(attempts),
               order_rows |-> order_rows, orders |-> orders,
               delhivery_manifest |-> delhivery_manifest ]
  /\ pc' = "idle"
  /\ UNCHANGED <<payload, clock, rollAt, order_rows, derived, i, orders,
                 delhivery_manifest, attempts, issued, calls>>

\* Days pass between requests.
Tick ==
  /\ pc = "idle"
  /\ clock' \in ProcessingDays \ {clock}
  /\ UNCHANGED <<pc, payload, rollAt, order_rows, derived, i, orders,
                 delhivery_manifest, attempts, response, last, issued, calls>>

Next ==
  \/ Receive
  \/ UpsertOrdersOk
  \/ UpsertOrdersFail
  \/ CreateManifestRaises
  \/ UpsertManifestOk
  \/ UpsertManifestFail
  \/ Respond
  \/ Tick

Spec == Init /\ [][Next]_vars

(***************************************************************************)
(* Properties of the two functions.                                        *)
(***************************************************************************)
Extracted == pc \in {"extracted", "derived"}

NumItems == Len(payload.lineItems)

OrderNumberReadable == ~ConversionRaises(Get(payload.orderNumber, Num(0)))

OrderNumberExcluded ==
  OrderNumberReadable /\ ToNumber(Get(payload.orderNumber, Num(0))) \in TEST_ORDER_IDS

\* Some step of the extraction raises.
ErrorOccurs ==
  \/ ~OrderNumberReadable
  \/ /\ ~OrderNumberExcluded
     /\ \/ HeaderRaises(payload)
        \/ \E k \in 1..NumItems : ItemRaises(payload.lineItems[k])

ValidPayload == OrderNumberReadable /\ ~OrderNumberExcluded /\ ~ErrorOccurs

\* C1: every manifest derived from a row carries unit_item_price =
\* (total_price - discount) + 80 when the row's payment_status is not "PAID"
\* and total_price - discount < 2000, and total_price - discount otherwise.
C1_CodSurcharge ==
  pc = "derived" =>
    \A k \in DOMAIN derived :
      ~derived[k].raised =>
        LET row == order_rows[k]
            base == row.total_price - row.discount
        IN derived[k].manifest.unit_item_price =
             IF row.payment_status # "PAID" /\ base < 2000 THEN base + 80 ELSE base

\* An unpaid order with one item priced exactly 2000 (no surcharge) and one
\* priced below it (surcharge), and a paid order's item below 2000.
C1_Witness ==
  /\ pc = "derived"
  /\ \E j, k \in DOMAIN derived :
       /\ ~derived[j].raised /\ ~derived[k].raised
       /\ order_rows[j].payment_status # "PAID"
       /\ order_rows[j].total_price - order_rows[j].discount = 2000
       /\ derived[j].manifest.unit_item_price = 2000
       /\ order_rows[k].total_price - order_rows[k].discount = 1999
       /\ derived[k].manifest.unit_item_price = 2079

\* C3: a valid payload with N line items whose order number is not excluded
\* yields exactly N rows, the k-th with item_index k and the name, sku,
\* quantity and total price of the k-th line item.
C3_RowsFollowLineItems ==
  (Extracted /\ ValidPayload) =>
    /\ Len(order_rows) = NumItems
    /\ \A k \in 1..NumItems :
         LET row == order_rows[k]
             item == payload.lineItems[k]
         IN /\ row.item_index = k
            /\ row.translated_name = Get(item.itemName, Str(""))
            /\ row.sku = Get(item.sku, Str(""))
            /\ row.quantity = Get(item.quantity, Num(1))
            /\ row.total_price = ToNumber(Get(item.totalPrice, Num(0)))

C3_Witness ==
  /\ Extracted /\ ValidPayload
  /\ NumItems = 2
  /\ payload.lineItems[1].itemName # payload.lineItems[2].itemName
  /\ Len(order_rows) = 2
  /\ order_rows[2].item_index = 2

\* C4: extraction returns all N rows or none, and none whenever a step of it
\* raises, also after earlier line items were turned into rows.
C4_AllRowsOrNone ==
  Extracted =>
    /\ Len(order_rows) \in {0, NumItems}
    /\ ErrorOccurs => order_rows = <<>>

\* The second line item is malformed after the first one was processed.
C4_Witness ==
  /\ Extracted
  /\ OrderNumberReadable /\ ~OrderNumberExcluded /\ ~HeaderRaises(payload)
  /\ NumItems = 2
  /\ ~ItemRaises(payload.lineItems[1])
  /\ ItemRaises(payload.lineItems[2])
  /\ order_rows = <<>>

NamedLines(description_lines, name) ==
  {j \in 1..Len(description_lines) : description_lines[j].name = Str(name)}

FirstNamed(description_lines, name) ==
  LET at == NamedLines(description_lines, name)
  IN IF at = {} THEN Str("")
     ELSE Get(description_lines[CHOOSE j \in at : \A m \in at : j <= m].description, Str(""))

LastNamed(description_lines, name) ==
  LET at == NamedLines(description_lines, name)
  IN IF at = {} THEN Str("")
     ELSE Get(description_lines[CHOOSE j \in at : \A m \in at : j >= m].description, Str(""))

\* C5 as amended: a row's size is the description of the LAST description
\* line named "Sizes" and its color that of the LAST one named "Colour"; the
\* empty string when no line has the name.
C5_LastMatchWins ==
  Extracted =>
    \A k \in 1..Len(order_rows) :
      LET description_lines == payload.lineItems[k].descriptionLines
      IN /\ order_rows[k].size = LastNamed(description_lines, "Sizes")
         /\ order_rows[k].color = LastNamed(description_lines, "Colour")

\* C5 as stated: the FIRST line of each name decides, later ones are ignored.
C5_FirstMatchWins ==
  Extracted =>
    \A k \in 1..Len(order_rows) :
      LET description_lines == payload.lineItems[k].descriptionLines
      IN /\ order_rows[k].size = FirstNamed(description_lines, "Sizes")
         /\ order_rows[k].color = FirstNamed(description_lines, "Colour")

\* Two "Sizes" lines with different descriptions: the row has the later one.
C5_Witness ==
  /\ Extracted
  /\ Len(order_rows) = 1
  /\ LET description_lines == payload.lineItems[1].descriptionLines
     IN /\ Cardinality(NamedLines(description_lines, "Sizes")) >= 2
        /\ FirstNamed(description_lines, "Sizes") # LastNamed(description_lines, "Sizes")
        /\ order_rows[1].size = LastNamed(description_lines, "Sizes")

(***************************************************************************)
(* Properties of the webhook and of successive calls.                      *)
(***************************************************************************)
RowIds == [k \in 1..Len(order_rows) |-> order_rows[k].order_id]

IsOrdersCall(e) == e.step = "orders"

\* The order_ids handed to the orders upsert so far, in call order.
OrdersCalls ==
  LET calls_made == SelectSeq(attempts, IsOrdersCall)
  IN [k \in 1..Len(calls_made) |-> calls_made[k].order_id]

\* C2: a payload whose order number is in the exclusion set yields no rows,
\* the request issues no upsert and is answered "skipped", and the orders
\* table never holds a row of an excluded order number.
C2_TestOrdersSkipped ==
  /\ (payload # None /\ OrderNumberExcluded) =>
       /\ order_rows = <<>>
       /\ attempts = <<>>
       /\ response \in {NoResponse, [status |-> "skipped"]}
       /\ pc = "idle" => response = [status |-> "skipped"]
  /\ \A r \in orders : r.original_order_id \notin TEST_ORDER_IDS

\* A test order with line items was answered while the store holds rows of
\* an earlier, real order.
C2_Witness ==
  /\ pc = "idle"
  /\ payload # None /\ OrderNumberExcluded
  /\ NumItems >= 1
  /\ response = [status |-> "skipped"]
  /\ orders # {}

\* C6: create_delhivery_manifest returns a record for every row
\* extract_order_data produced, so no request has a row whose orders upsert
\* was followed by a failed manifest derivation.
C6_ManifestTotal ==
  \A k \in DOMAIN attempts : attempts[k].step = "derive" => attempts[k].ok

\* C7: the orders upsert is attempted once per row, in line-item order,
\* whatever failed before, and a request with rows is answered "success"
\* with the order_ids of all rows in line-item order.
C7_EveryRowAttempted ==
  /\ OrdersCalls =
       SubSeq(RowIds, 1, CASE pc = "orders" -> i - 1
                           [] pc = "manifest" -> i
                           [] OTHER -> Len(order_rows))
  /\ (pc = "idle" /\ order_rows # <<>>) =>
       response = [status |-> "success", order_ids |-> RowIds]
  /\ response.status = "success" => order_rows # <<>>

\* The first of two rows failed to persist, the second was still attempted,
\* and the response lists both.
C7_Witness ==
  /\ pc = "idle"
  /\ Len(order_rows) = 2
  /\ response.status = "success"
  /\ Len(response.order_ids) = 2
  /\ attempts[1] = Event("orders", order_rows[1], FALSE)
  /\ attempts[2] = Event("orders", order_rows[2], TRUE)
  /\ \A r \in orders : r.order_id # order_rows[1].order_id

\* C8: a request that repeats the previous request's payload on the same
\* weekday, with every upsert of both succeeding, extracts equal rows and
\* leaves both tables as the previous request left them.
C8_RepeatDeliveryIdempotent ==
  ( /\ pc = "respond"
    /\ last # NoRequest
    /\ last.payload = payload
    /\ last.clock = clock /\ last.rollAt = rollAt
    /\ last.clean /\ Clean(attempts) ) =>
      /\ order_rows = last.order_rows
      /\ orders = last.orders
      /\ delhivery_manifest = last.delhivery_manifest

C8_Witness ==
  /\ pc = "respond"
  /\ last # NoRequest
  /\ last.payload = payload
  /\ last.clock = clock /\ last.rollAt = rollAt
  /\ last.clean /\ Clean(attempts)
  /\ Len(order_rows) = 2
  /\ Cardinality(orders) = 2
  /\ delhivery_manifest # {}

\* C9: the order_ids of one call are pairwise distinct, and two rows of any
\* calls share an order_id only if they share original_order_id and
\* item_index.
C9_OrderIdsUnique ==
  /\ \A j, k \in 1..Len(order_rows) :
       j # k => order_rows[j].order_id # order_rows[k].order_id
  /\ \A a, b \in issued :
       a.order_id = b.order_id =>
         /\ a.original_order_id = b.original_order_id
         /\ a.item_index = b.item_index

\* Two calls, for different order numbers, the second with two rows.
C9_Witness ==
  /\ pc = "extracted"
  /\ calls = 2
  /\ Len(order_rows) = 2
  /\ Cardinality({a.original_order_id : a \in issued}) = 2
  /\ Cardinality(issued) = 4

\* C10: every delhivery_manifest record with sale_order_number "PZ" + x has
\* an orders record with order_id x.
C10_ManifestHasOrder ==
  \A m \in delhivery_manifest :
    \E r \in orders : m.sale_order_number = "PZ" \o r.order_id

\* A manifest record is stored, and an order row is stored without one.
C10_Witness ==
  /\ delhivery_manifest # {}
  /\ \E r \in orders :
       \A m \in delhivery_manifest : m.sale_order_number # "PZ" \o r.order_id

====
